---- MODULE Spec2Model ----
(***************************************************************************)
(* A model of three pieces of the opencollective frontend:                 *)
(*   - the Policies settings form (components/edit-collective/sections/    *)
(*     Policies.js): form state, validation, and the submit handler with   *)
(*     its three GraphQL mutations;                                        *)
(*   - the admin panel section router (components/admin-panel/             *)
(*     AdminPanelSection.js);                                              *)
(*   - the server-side document (pages/_document.js): CSP nonce, the       *)
(*     environment payload and the client analytics configuration.         *)
(* Each piece has its own specification over the shared variables: Spec    *)
(* (submissions of the Policies form), SpecForm (editing and validation),  *)
(* SpecPolicy (the minimum-admins controls), SpecApproval (the expense     *)
(* author checkbox), SpecData (arrival of the settings query), SpecSelect  *)
(* (the category selection), SpecPanel, SpecDoc (requests), SpecEnv (the   *)
(* environment payload) and SpecAnalytics (the analytics configuration).   *)
(***************************************************************************)
EXTENDS Integers, Sequences, FiniteSets, TLC

VARIABLES
    \* ---- Policies.js ----
    values,        \* formik.values
    errors,        \* formik.errors
    submitCount,   \* formik.submitCount: submit attempts, blocked ones included
    selected,      \* React state `selected`: the chosen category options
    data,          \* result of getSettingsQuery (Null while loading)
    hooks,         \* the three useMutation results: loading, error, latest call
    subs,          \* one record per invocation of onSubmit: what it captured,
                   \* its editCollective request while in flight, its progress
    srv,           \* the account on the server: settings.moderation and policies
    collective,    \* the `collective` prop
    \* ---- AdminPanelSection.js ----
    panelProps,    \* props of the latest render
    panelOutput,   \* what that render returned
    \* ---- _document.js ----
    env,           \* process.env
    cspHeader,     \* module constant cspHeader = getCSPHeader()
    uuidCalls,     \* number of uuid() calls made so far
    requests       \* one record per server render

policiesVars ==
    <<values, errors, submitCount, selected, data, hooks, subs, srv, collective>>
panelVars == <<panelProps, panelOutput>>
docVars == <<env, cspHeader, uuidCalls, requests>>
vars == <<policiesVars, panelVars, docVars>>

\* JavaScript's null / undefined, where a string or an error is expected.
Null == "null"

\* An optional value: <<>> is null / undefined, <<v>> is v.
None == <<>>
Some(v) == <<v>>

(***************************************************************************)
(* Bounds of the model.                                                    *)
(***************************************************************************)
MaxSubmissions == 2
MaxAttempts == 3
MaxFormSubmissions == 1
MarkupLen == 7

(***************************************************************************)
(* Policies.js: constants and helpers.                                     *)
(***************************************************************************)
EXPENSE_POLICY_MAX_LENGTH == 16000
CONTRIBUTION_POLICY_MAX_LENGTH == 3000

\* Keys of MODERATION_CATEGORIES (lib/constants/moderation-categories).
MODERATION_CATEGORIES == <<"ADULT", "CASINO_GAMBLING">>

\* selectOptions: one option {id, value, label} per category, in key order.
selectOptions ==
    [index \in 1..Len(MODERATION_CATEGORIES) |->
        [id |-> index - 1, value |-> MODERATION_CATEGORIES[index]]]

\* A rich-text value: `chars` characters of text and `markup` characters of tags.
RichText(chars, markup) == [chars |-> chars, markup |-> markup]

\* stripHTML (lib/utils): the text without its tags.
stripHTML(html) == RichText(html.chars, 0)

\* String.prototype.length
Length(text) == text.chars + text.markup

(***************************************************************************)
(* Objects with a variable set of keys (the policies object). Scalars are  *)
(* written as their JSON literals ("true", "null"); a null where an object *)
(* is expected is NullObject.                                              *)
(***************************************************************************)
EmptyObject == [k \in {} |-> Null]
NullObject == [k \in {"null"} |-> Null]

IsNullObject(object) == "null" \in DOMAIN object

\* lodash omit(object, [key])
omit(object, key) == [k \in (DOMAIN object) \ {key} |-> object[k]]

\* { ...object, [key]: value }
assign(object, key, value) ==
    [k \in (DOMAIN object) \cup {key} |-> IF k = key THEN value ELSE object[k]]

\* object?.[key] of a scalar field, undefined as Null
getScalar(object, key) == IF key \in DOMAIN object THEN object[key] ELSE Null

\* object?.[key] of an object field, undefined as NullObject
getObject(object, key) == IF key \in DOMAIN object THEN object[key] ELSE NullObject

\* { ...object }: null and undefined spread to no property
spread(object) == IF IsNullObject(object) THEN EmptyObject ELSE object

\* Boolean(value) of a scalar
Truthy(value) == value = "true"

\* The keys of the policies object whose values are objects.
ObjectKeys == {"COLLECTIVE_MINIMUM_ADMINS"}

\* omitDeep (lib/utils): removes the key from the object and, recursively, from
\* the objects nested in it.
omitDeep(object, key) ==
    [k \in (DOMAIN object) \ {key} |->
        IF k \in ObjectKeys THEN omit(object[k], key) ELSE object[k]]

(***************************************************************************)
(* AdminPanelSection.js                                                    *)
(***************************************************************************)
\* ./constants: the section identifiers.
HOST_DASHBOARD_SECTIONS ==
    [HOSTED_COLLECTIVES |-> "hosted-collectives",
     FINANCIAL_CONTRIBUTIONS |-> "orders",
     EXPENSES |-> "expenses",
     PENDING_APPLICATIONS |-> "pending-applications",
     REPORTS |-> "reports",
     HOST_VIRTUAL_CARDS |-> "host-virtual-cards"]

COLLECTIVE_SECTIONS == [NOTIFICATIONS |-> "notifications"]

FISCAL_HOST_SECTIONS == [INVOICES_RECEIPTS |-> "invoices-receipts"]

\* values(LEGACY_COLLECTIVE_SETTINGS_SECTIONS); a legacy section may carry the
\* identifier of a section of the tables below.
LEGACY_COLLECTIVE_SETTINGS_SECTIONS == {"info", "policies", "invoices-receipts"}

\* Builds the object { [key]: component, ... } from a set of pairs.
ObjectOf(pairs) ==
    [key \in {pair[1] : pair \in pairs} |->
        (CHOOSE pair \in pairs : pair[1] = key)[2]]

ADMIN_PANEL_SECTIONS ==
    ObjectOf({<<HOST_DASHBOARD_SECTIONS.HOSTED_COLLECTIVES, "HostDashboardHostedCollectives">>,
              <<HOST_DASHBOARD_SECTIONS.FINANCIAL_CONTRIBUTIONS, "FinancialContributions">>,
              <<HOST_DASHBOARD_SECTIONS.EXPENSES, "HostDashboardExpenses">>,
              <<HOST_DASHBOARD_SECTIONS.PENDING_APPLICATIONS, "PendingApplications">>,
              <<HOST_DASHBOARD_SECTIONS.REPORTS, "HostDashboardReports">>,
              <<HOST_DASHBOARD_SECTIONS.HOST_VIRTUAL_CARDS, "HostVirtualCards">>,
              <<COLLECTIVE_SECTIONS.NOTIFICATIONS, "NotificationsSettings">>})

FISCAL_HOST_SETTINGS_SECTIONS ==
    ObjectOf({<<FISCAL_HOST_SECTIONS.INVOICES_RECEIPTS, "InvoicesReceipts">>})

\* Properties every object literal inherits from Object.prototype.
ObjectPrototype == {"constructor", "toString", "__proto__"}

\* object[key]: an own property, else an inherited one, else undefined.
Lookup(object, key) ==
    IF key \in DOMAIN object THEN object[key]
    ELSE IF key \in ObjectPrototype THEN "Object.prototype." \o key
    ELSE Null

\* A router that looks at the section before the loading flag.
AdminPanelSectionLoadingLast(props) ==
    LET AdminSectionComponent == Lookup(ADMIN_PANEL_SECTIONS, props.section)
    IN IF AdminSectionComponent # Null
       THEN IF props.collective = None THEN "TypeError" ELSE AdminSectionComponent
       ELSE IF props.isLoading THEN "LoadingPlaceholder"
       ELSE "NotFound"

\* AdminPanelSection(props): the type of the element it returns ("TypeError" when
\* it throws reading collective.slug of a null collective).
AdminPanelSection(props) ==
    LET AdminSectionComponent == Lookup(ADMIN_PANEL_SECTIONS, props.section)
        FiscalHostSettingsComponent == Lookup(FISCAL_HOST_SETTINGS_SECTIONS, props.section)
    IN IF props.isLoading THEN "LoadingPlaceholder"
       ELSE IF AdminSectionComponent # Null
       THEN IF props.collective = None THEN "TypeError" ELSE AdminSectionComponent
       ELSE IF FiscalHostSettingsComponent # Null THEN FiscalHostSettingsComponent
       ELSE IF props.section \in LEGACY_COLLECTIVE_SETTINGS_SECTIONS THEN "AccountSettings"
       ELSE "NotFound"

\* Section identifiers a URL can carry: the registered ones, unknown ones, and
\* names of inherited object properties.
Sections ==
    DOMAIN ADMIN_PANEL_SECTIONS \cup DOMAIN FISCAL_HOST_SETTINGS_SECTIONS
        \cup LEGACY_COLLECTIVE_SETTINGS_SECTIONS \cup {"no-such-section", ""}
        \cup ObjectPrototype

\* Props the parent passes: the collective can be null only while loading.
PanelProps ==
    {props \in [collective : {None, Some([slug |-> "opencollective", isHost |-> TRUE]),
                              Some([slug |-> "babel", isHost |-> FALSE])},
                isLoading : BOOLEAN,
                section : Sections,
                subpath : {<<>>, <<"pending">>}] :
        props.collective = None => props.isLoading}

\* The parent renders the section with these props.
RenderPanel(props) ==
    /\ props # panelProps
    /\ panelProps' = props
    /\ panelOutput' = AdminPanelSection(props)
    /\ UNCHANGED <<policiesVars, docVars>>

NoPanel ==
    /\ panelProps = [collective |-> None, isLoading |-> TRUE, section |-> "",
                     subpath |-> <<>>]
    /\ panelOutput = "LoadingPlaceholder"

(***************************************************************************)
(* _document.js                                                            *)
(***************************************************************************)
MaxRequests == 2
MaxEnvRequests == 1
MaxEnvVars == 2

\* The names pick() is given: the variables the client may read.
ClientEnvNames ==
    {"IMAGES_URL", "PAYPAL_ENVIRONMENT", "STRIPE_KEY", "SENTRY_DSN", "SENTRY_RELEASE",
     "WEBSITE_URL", "GOOGLE_MAPS_API_KEY", "RECAPTCHA_SITE_KEY", "RECAPTCHA_ENABLED",
     "WISE_ENVIRONMENT", "HCAPTCHA_SITEKEY", "CAPTCHA_ENABLED", "CAPTCHA_PROVIDER"}

\* Variables of the server that are not for the client.
ServerOnlyEnvNames == {"CLIENT_ANALYTICS_ENABLED", "CLIENT_ANALYTICS_SITE_ID"}

EnvNames == ClientEnvNames \cup ServerOnlyEnvNames
EnvValues == {"x", "y"}

\* Environments with at most `most` variables set.
Environments(most) ==
    UNION {[names -> EnvValues] :
              names \in {n \in SUBSET EnvNames : Cardinality(n) <= most}}

\* lodash pick(object, paths): the properties of the object named in paths.
pick(object, paths) == [k \in (DOMAIN object) \cap paths |-> object[k]]

\* A constructor that hands the whole environment to the client.
clientEnvEverything(environment) == environment

\* props.__NEXT_DATA__.env
clientEnv(environment) == pick(environment, ClientEnvNames)

\* uuid(): the n-th call returns the n-th of a series of distinct identifiers.
Uuids == <<"uuid-1", "uuid-2", "uuid-3", "uuid-4">>
uuid(n) == Uuids[n]

Placeholder == "__OC_REQUEST_NONCE__"

\* getCSPHeader() (server/content-security-policy): null, or the header's name
\* and its value, here in pieces, with the placeholder in the script-src nonce.
CspHeaders ==
    {None,
     Some([key |-> "Content-Security-Policy",
           value |-> <<"default-src 'self'; script-src 'nonce-", Placeholder, "'">>]),
     Some([key |-> "Content-Security-Policy-Report-Only",
           value |-> <<"script-src 'self' 'nonce-", Placeholder,
                       "'; object-src 'none'">>])}

\* string.replace(pattern, replacement) with a string pattern: the first
\* occurrence is replaced.
replace(string, pattern, replacement) ==
    IF \E i \in DOMAIN string : string[i] = pattern
    THEN LET first == CHOOSE i \in DOMAIN string :
                          /\ string[i] = pattern
                          /\ \A j \in 1..(i - 1) : string[j] # pattern
         IN [string EXCEPT ![first] = replacement]
    ELSE string

\* Request URLs and patterns are sequences of characters.
RootUrl == <<"/">>

\* The URLs of the requests: /, /signin, /signin/sent, /signin/abc, /a.html,
\* /ahtml, /button, /signin/sent.html, /x/signin/b/button.
Urls ==
    {<<"/">>,
     <<"/", "s", "i", "g", "n", "i", "n">>,
     <<"/", "s", "i", "g", "n", "i", "n", "/", "s", "e", "n", "t">>,
     <<"/", "s", "i", "g", "n", "i", "n", "/", "a", "b", "c">>,
     <<"/", "a", ".", "h", "t", "m", "l">>,
     <<"/", "a", "h", "t", "m", "l">>,
     <<"/", "b", "u", "t", "t", "o", "n">>,
     <<"/", "s", "i", "g", "n", "i", "n", "/", "s", "e", "n", "t", ".", "h", "t", "m", "l">>,
     <<"/", "x", "/", "s", "i", "g", "n", "i", "n", "/", "b", "/", "b", "u", "t", "t", "o", "n">>}

\* url.match(/pattern/) for a pattern without special characters: the pattern
\* occurs somewhere in the url.
match(url, pattern) ==
    \E i \in 1..(Len(url) - Len(pattern) + 1) :
        SubSeq(url, i, i + Len(pattern) - 1) = pattern

\* parseToBoolean (lib/utils): true for the words that mean yes, false for any
\* other value and for undefined.
parseToBoolean(value) == value \in {"on", "enabled", "1", "true", "yes"}

\* Number(value) of an environment variable, as its JSON literal
Number(value) == IF value \in {"7"} THEN value ELSE "NaN"

\* process.env[name], undefined as Null
getenv(environment, name) ==
    IF name \in DOMAIN environment THEN environment[name] ELSE Null

\* An analytics configuration that does not look at the page's kind.
clientAnalyticsIgnoringPage(environment, url) ==
    [enabled |-> parseToBoolean(getenv(environment, "CLIENT_ANALYTICS_ENABLED")),
     siteId |-> Number(getenv(environment, "CLIENT_ANALYTICS_SITE_ID")),
     customUrl |-> IF match(url, <<"/", "s", "i", "g", "n", "i", "n", "/", "s", "e", "n", "t">>)
                   THEN "/signin/sent"
                   ELSE IF match(url, <<"/", "s", "i", "g", "n", "i", "n", "/">>)
                        THEN "/signin/token" ELSE Null]

\* clientAnalytics as getInitialProps computes it from process.env and ctx.req.url
clientAnalytics(environment, url) ==
    [enabled |->
        IF match(url, <<".", "h", "t", "m", "l">>) \/ match(url, <<"/", "b", "u", "t", "t", "o", "n">>)
        THEN FALSE
        ELSE parseToBoolean(getenv(environment, "CLIENT_ANALYTICS_ENABLED")),
     siteId |-> Number(getenv(environment, "CLIENT_ANALYTICS_SITE_ID")),
     customUrl |-> IF match(url, <<"/", "s", "i", "g", "n", "i", "n", "/", "s", "e", "n", "t">>)
                   THEN "/signin/sent"
                   ELSE IF match(url, <<"/", "s", "i", "g", "n", "i", "n", "/">>)
                        THEN "/signin/token" ELSE Null]

\* clientAnalyticsCode(): the lines of the analytics script.
clientAnalyticsCode(analytics) ==
    <<<<"var _paq = window._paq = window._paq || [];">>>>
    \o (IF analytics.customUrl # Null
        THEN <<<<"setCustomUrl", analytics.customUrl>>>> ELSE <<>>)
    \o <<<<"trackPageView">>, <<"enableLinkTracking">>,
         <<"setSiteId", analytics.siteId>>>>

\* A getInitialProps that keeps one nonce for all requests.
requestNonceShared(calls) == uuid(1)

\* requestNonce = uuid(), the call being the (calls + 1)-th
requestNonce(calls) == uuid(calls + 1)

NoNextData == [cspNonce |-> Null, env |-> EmptyObject]
NoNonces == [tag \in {} |-> Null]

\* IntlDocument.getInitialProps(ctx): sets the CSP header on ctx.res and returns
\* the props of the document.
GetInitialProps(url, hasRes, limit) ==
    /\ Len(requests) < limit
    /\ LET withNonce == hasRes /\ cspHeader # None
           nonce == IF withNonce THEN requestNonce(uuidCalls) ELSE Null
       IN /\ uuidCalls' = IF withNonce THEN uuidCalls + 1 ELSE uuidCalls
          /\ requests' = Append(requests,
                [url |-> url,
                 hasRes |-> hasRes,
                 headers |-> IF withNonce
                             THEN Some([key |-> cspHeader[1].key,
                                        value |-> replace(cspHeader[1].value,
                                                          Placeholder, nonce)])
                             ELSE None,
                 props |-> [clientAnalytics |-> clientAnalytics(env, url),
                            cspNonce |-> nonce],
                 stage |-> "initialProps",
                 nextData |-> NoNextData,
                 nonces |-> NoNonces,
                 analyticsScript |-> None])
    /\ UNCHANGED <<env, cspHeader, policiesVars, panelVars>>

\* new IntlDocument(props): fills __NEXT_DATA__.
Construct(r) ==
    /\ r \in DOMAIN requests
    /\ requests[r].stage = "initialProps"
    /\ requests' = [requests EXCEPT
            ![r].stage = "constructed",
            ![r].nextData = [cspNonce |-> IF requests[r].props.cspNonce # Null
                                          THEN requests[r].props.cspNonce ELSE Null,
                             env |-> clientEnv(env)]]
    /\ UNCHANGED <<env, cspHeader, uuidCalls, policiesVars, panelVars>>

\* render(): Head, Main, the locale data script, NextScript and, when analytics
\* is enabled, the analytics script, each with the nonce.
RenderDocument(r) ==
    /\ r \in DOMAIN requests
    /\ requests[r].stage = "constructed"
    /\ LET analytics == requests[r].props.clientAnalytics
           tags == {"Head", "Main", "localeDataScript", "NextScript"}
                   \cup (IF analytics.enabled THEN {"clientAnalytics"} ELSE {})
       IN requests' = [requests EXCEPT
            ![r].stage = "rendered",
            ![r].nonces = [tag \in tags |-> requests[r].props.cspNonce],
            ![r].analyticsScript = IF analytics.enabled
                                   THEN Some(clientAnalyticsCode(analytics))
                                   ELSE None]
    /\ UNCHANGED <<env, cspHeader, uuidCalls, policiesVars, panelVars>>

NoDocument ==
    /\ env = EmptyObject
    /\ cspHeader = None
    /\ uuidCalls = 0
    /\ requests = <<>>

(***************************************************************************)
(* Policies.js: the form.                                                  *)
(***************************************************************************)
Mutations == {"editCollective", "editAccountSetting", "setPolicies"}

NoErrors == [contributionPolicy |-> Null, expensePolicy |-> Null]

\* validate(values) of useFormik
validate(vals) ==
    [contributionPolicy |->
        IF Length(stripHTML(vals.contributionPolicy)) > CONTRIBUTION_POLICY_MAX_LENGTH
        THEN "collective.contributionPolicy.error" ELSE Null,
     expensePolicy |->
        IF Length(stripHTML(vals.expensePolicy)) > EXPENSE_POLICY_MAX_LENGTH
        THEN "collective.expensePolicy.error" ELSE Null]

\* A submit gate that looks at the first field only.
isValidContributionOnly(errs) == errs.contributionPolicy = Null

\* formik.handleSubmit runs onSubmit only when validation reported no error.
isValid(errs) == errs = NoErrors

\* formik.setFieldValue(field, value): sets the field and validates the form.
setFieldValue(vals, field, value) == [vals EXCEPT ![field] = value]

\* The account as the GraphQL API returns its policies: every selected field is
\* present (null when unset) and each object carries its __typename.
ViewPolicies(policies) ==
    [k \in {"__typename", "EXPENSE_AUTHOR_CANNOT_APPROVE", "COLLECTIVE_MINIMUM_ADMINS"} |->
        CASE k = "__typename" -> "Policies"
          [] k = "EXPENSE_AUTHOR_CANNOT_APPROVE" -> getScalar(policies, k)
          [] OTHER ->
                IF k \in DOMAIN policies /\ ~IsNullObject(policies[k])
                THEN [f \in {"__typename", "numberOfAdmins", "applies", "freeze"} |->
                         IF f = "__typename" THEN "COLLECTIVE_MINIMUM_ADMINS"
                         ELSE getScalar(policies[k], f)]
                ELSE NullObject]

\* What getSettingsQuery returns for the account.
ViewAccount(account) ==
    [rejectedCategories |->
        IF account.moderation = None THEN None
        ELSE Some(account.moderation[1].rejectedCategories),
     policies |-> ViewPolicies(account.policies)]

\* The option of selectOptions with this value.
optionOf(category) ==
    CHOOSE option \in {selectOptions[i] : i \in DOMAIN selectOptions} :
        option.value = category

\* An effect that takes the server's categories whatever is selected.
prefillSelectedAlways(sel, newData) ==
    IF newData.rejectedCategories # None
    THEN [i \in 1..Len(newData.rejectedCategories[1]) |->
             optionOf(newData.rejectedCategories[1][i])]
    ELSE sel

\* The effect on [loading, collectiveContributionFilteringCategories]: pre-fills the
\* selection from the server when nothing is selected.
prefillSelected(sel, newData) ==
    IF newData.rejectedCategories # None /\ sel = <<>>
    THEN [i \in 1..Len(newData.rejectedCategories[1]) |->
             optionOf(newData.rejectedCategories[1][i])]
    ELSE sel

\* An effect that resets the whole form to its initial values and the data's
\* policies.
resetPoliciesAndForm(vals, newData) ==
    [contributionPolicy |-> RichText(0, 0),
     expensePolicy |-> RichText(0, 0),
     disablePublicExpenseSubmission |-> FALSE,
     policies |-> omitDeep(newData.policies, "__typename")]

\* The effect on [data]: the form's policies become the server's.
resetPolicies(vals, newData) ==
    setFieldValue(vals, "policies", omitDeep(newData.policies, "__typename"))

\* The query delivers a result: nothing happens when it equals the data the
\* component holds; otherwise the component renders with the new data and the
\* effects whose dependencies changed run: the one on [data], and the one on
\* [loading, collectiveContributionFilteringCategories] at the first result and
\* when the server's rejected categories changed.
OnData(newData) ==
    IF data = Some(newData)
    THEN UNCHANGED <<data, selected, values, errors>>
    ELSE /\ data' = Some(newData)
         /\ selected' = IF data = None
                            \/ data[1].rejectedCategories # newData.rejectedCategories
                         THEN prefillSelected(selected, newData)
                         ELSE selected
         /\ values' = resetPolicies(values, newData)
         /\ errors' = validate(values')

\* numberOfAdmins = size(filter(collective.members, m => m.role === 'ADMIN'))
numberOfAdmins == collective.admins

\* error = categoriesError || settingsError || policiesError
error ==
    IF hooks["editAccountSetting"].error # Null THEN hooks["editAccountSetting"].error
    ELSE IF hooks["editCollective"].error # Null THEN hooks["editCollective"].error
    ELSE hooks["setPolicies"].error

isSubmittingCategories == hooks["editAccountSetting"].loading
isSubmittingSettings == hooks["editCollective"].loading
isSettingPolicies == hooks["setPolicies"].loading

\* The submit button shows its loading state instead of submitting.
submitButtonLoading == isSubmittingSettings \/ isSubmittingCategories

(***************************************************************************)
(* Policies.js: useMutation and onSubmit.                                  *)
(***************************************************************************)
IdleHook == [loading |-> FALSE, error |-> Null, latest |-> 0]

\* Calling the mutate function of a useMutation hook: the result becomes loading,
\* without error, and this call is the hook's latest.
execute(hook, call) == [loading |-> TRUE, error |-> Null, latest |-> call]

\* A call completes: the hook's result follows its latest call only.
complete(hook, call, err) ==
    IF hook.latest = call
    THEN [loading |-> FALSE, error |-> err, latest |-> call]
    ELSE hook

NotIssued == [m \in Mutations |-> "none"]
NoCalls == [m \in Mutations |-> 0]

\* An onSubmit that does not await updateCollective: all three are called at once.
onSubmitStartNoAwait(status) == [m \in Mutations |-> "pending"]

\* onSubmit, up to its first await: updateCollective is called.
onSubmitStart(status) == [status EXCEPT !["editCollective"] = "pending"]

\* onSubmit, after `await updateCollective(...)` resolved: Promise.all over
\* updateCategories and setPolicies, both called before either is awaited.
onCollectiveUpdated(status) ==
    [status EXCEPT !["editAccountSetting"] = "pending", !["setPolicies"] = "pending"]

\* A promise of one of the three mutations settles with this outcome ("ok" or
\* "failed"); nothing is called again.
onSettled(status, m, outcome) == [status EXCEPT ![m] = outcome]

\* Promise.allSettled in place of Promise.all: both have settled, either way.
promiseAllSettled(status) ==
    status["editAccountSetting"] \in {"ok", "failed"} /\ status["setPolicies"] \in {"ok", "failed"}

\* Promise.all([updateCategories(...), setPolicies(...)]) has resolved.
promiseAllResolved(status) ==
    status["editAccountSetting"] = "ok" /\ status["setPolicies"] = "ok"

\* Variables of the updateCategories call.
categoriesVariables(sub) ==
    [key |-> "moderation",
     value |-> [rejectedCategories |->
                    [i \in 1..Len(sub.selected) |-> sub.selected[i].value]]]

\* Variables of the setPolicies call.
policiesVariables(sub) == [policies |-> sub.policies]

\* Variables of the updateCollective call (collective.id and the other settings
\* of the collective prop are the same in every call).
collectiveVariables(vals) ==
    [contributionPolicy |-> vals.contributionPolicy,
     expensePolicy |-> vals.expensePolicy,
     disablePublicExpenseSubmission |-> vals.disablePublicExpenseSubmission]

\* The hooks after the calls that turned `before` into `after` were made by call s.
hooksAfterCalls(before, after, s) ==
    [m \in Mutations |->
        IF after[m] = "pending" /\ before[m] # "pending"
        THEN execute(hooks[m], s) ELSE hooks[m]]

callsAfter(calls, before, after) ==
    [m \in Mutations |->
        IF after[m] = "pending" /\ before[m] # "pending" THEN calls[m] + 1 ELSE calls[m]]

\* The server executes editAccountSetting: the value replaces settings[key].
ServerEditAccountSetting(account, variables) ==
    IF variables.key = "moderation"
    THEN [account EXCEPT !.moderation = Some(variables.value)]
    ELSE account

\* The server executes setPolicies: the value replaces the account's policies.
ServerSetPolicies(account, variables) ==
    [account EXCEPT !.policies = variables.policies]

InFlight(sub) == \E m \in Mutations : sub.status[m] = "pending"

\* formik.handleSubmit: count the attempt, validate, and run onSubmit if valid.
Submit(limit) ==
    /\ submitCount < MaxAttempts
    /\ ~submitButtonLoading
    /\ submitCount' = submitCount + 1
    /\ errors' = validate(values)
    /\ IF isValid(errors')
       THEN /\ Len(subs) < limit
            /\ LET s == Len(subs) + 1
                   status == onSubmitStart(NotIssued)
               IN /\ subs' =
                        Append(subs,
                               [policies |-> values.policies,
                                selected |-> selected,
                                request |-> Some(collectiveVariables(values)),
                                status |-> status,
                                calls |-> callsAfter(NoCalls, NotIssued, status),
                                toasts |-> 0])
                  /\ hooks' = hooksAfterCalls(NotIssued, status, s)
       ELSE UNCHANGED <<subs, hooks>>
    /\ UNCHANGED <<values, selected, data, srv, collective, panelVars, docVars>>

\* The editCollective mutation of submission s succeeds.
CollectiveOk(s) ==
    /\ s \in DOMAIN subs
    /\ subs[s].status["editCollective"] = "pending"
    /\ LET settled == onSettled(subs[s].status, "editCollective", "ok")
           status == onCollectiveUpdated(settled)
           completed == [hooks EXCEPT !["editCollective"] = complete(@, s, Null)]
       IN /\ subs' = [subs EXCEPT ![s].status = status,
                                  ![s].request = None,
                                  ![s].calls = callsAfter(@, settled, status)]
          /\ hooks' = [m \in Mutations |->
                          IF status[m] = "pending" /\ settled[m] # "pending"
                          THEN execute(completed[m], s) ELSE completed[m]]
    /\ UNCHANGED <<values, errors, submitCount, selected, data, srv, collective, panelVars, docVars>>

\* A mutation of submission s fails: its promise rejects and onSubmit stops.
MutationFail(s, m) ==
    /\ s \in DOMAIN subs
    /\ subs[s].status[m] = "pending"
    /\ LET status == onSettled(subs[s].status, m, "failed")
           called == status[m] = "pending"
       IN /\ subs' = [subs EXCEPT ![s].status = status,
                                  ![s].request =
                                      IF status["editCollective"] = "pending"
                                      THEN @ ELSE None,
                                  ![s].calls[m] = IF called THEN @ + 1 ELSE @]
          /\ hooks' = [hooks EXCEPT
                          ![m] = IF called THEN execute(@, s)
                                 ELSE complete(@, s, "GraphQLError")]
    /\ UNCHANGED <<values, errors, submitCount, selected, data, srv, collective, panelVars, docVars>>

\* addToast(...) once Promise.all has resolved.
toastsAfter(sub, status) ==
    IF promiseAllResolved(status) THEN sub.toasts + 1 ELSE sub.toasts

\* The editAccountSetting mutation of submission s succeeds.
CategoriesOk(s) ==
    /\ s \in DOMAIN subs
    /\ subs[s].status["editAccountSetting"] = "pending"
    /\ LET status == onSettled(subs[s].status, "editAccountSetting", "ok")
           sent == categoriesVariables(subs[s])
       IN /\ subs' = [subs EXCEPT ![s].status = status,
                                  ![s].toasts = toastsAfter(subs[s], status)]
          /\ hooks' = [hooks EXCEPT !["editAccountSetting"] = complete(@, s, Null)]
          /\ srv' = ServerEditAccountSetting(srv, sent)
    /\ IF data # None
       THEN OnData([data[1] EXCEPT
                       !.rejectedCategories = ViewAccount(srv').rejectedCategories])
       ELSE UNCHANGED <<data, selected, values, errors>>
    /\ UNCHANGED <<submitCount, collective, panelVars, docVars>>

\* The setPolicies mutation of submission s succeeds.
PoliciesOk(s) ==
    /\ s \in DOMAIN subs
    /\ subs[s].status["setPolicies"] = "pending"
    /\ LET status == onSettled(subs[s].status, "setPolicies", "ok")
           sent == policiesVariables(subs[s])
       IN /\ subs' = [subs EXCEPT ![s].status = status,
                                  ![s].toasts = toastsAfter(subs[s], status)]
          /\ hooks' = [hooks EXCEPT !["setPolicies"] = complete(@, s, Null)]
          /\ srv' = ServerSetPolicies(srv, sent)
    /\ IF data # None
       THEN OnData([data[1] EXCEPT !.policies = ViewAccount(srv').policies])
       ELSE UNCHANGED <<data, selected, values, errors>>
    /\ UNCHANGED <<submitCount, collective, panelVars, docVars>>

\* The settings query returns.
QueryResult ==
    /\ data = None
    /\ OnData(ViewAccount(srv))
    /\ UNCHANGED <<submitCount, hooks, subs, srv, collective, panelVars, docVars>>

(***************************************************************************)
(* Policies.js: the user's edits.                                          *)
(***************************************************************************)
\* formik.handleChange of the contribution policy editor.
ChangeContributionPolicy(text) ==
    /\ text # values.contributionPolicy
    /\ values' = setFieldValue(values, "contributionPolicy", text)
    /\ errors' = validate(values')
    /\ UNCHANGED <<submitCount, selected, data, hooks, subs, srv, collective, panelVars, docVars>>

\* formik.handleChange of the expense policy editor.
ChangeExpensePolicy(text) ==
    /\ text # values.expensePolicy
    /\ values' = setFieldValue(values, "expensePolicy", text)
    /\ errors' = validate(values')
    /\ UNCHANGED <<submitCount, selected, data, hooks, subs, srv, collective, panelVars, docVars>>

\* onChange of the "allow-expense-submission" checkbox.
ToggleDisablePublicExpenseSubmission ==
    /\ values' = setFieldValue(values, "disablePublicExpenseSubmission",
                               ~values.disablePublicExpenseSubmission)
    /\ errors' = validate(values')
    /\ UNCHANGED <<submitCount, selected, data, hooks, subs, srv, collective, panelVars, docVars>>

\* A checkbox that is only disabled while the policies are being saved.
authorCannotApproveDisabledWhileSaving == isSettingPolicies

\* `disabled` of the "authorCannotApproveExpense" checkbox.
authorCannotApproveDisabled ==
    \/ isSettingPolicies
    \/ /\ numberOfAdmins < 2
       /\ ~Truthy(getScalar(values.policies, "EXPENSE_AUTHOR_CANNOT_APPROVE"))

\* onChange of the "authorCannotApproveExpense" checkbox.
ToggleAuthorCannotApprove ==
    /\ ~authorCannotApproveDisabled
    /\ values' = setFieldValue(values, "policies",
            IF Truthy(getScalar(values.policies, "EXPENSE_AUTHOR_CANNOT_APPROVE"))
            THEN omit(values.policies, "EXPENSE_AUTHOR_CANNOT_APPROVE")
            ELSE assign(values.policies, "EXPENSE_AUTHOR_CANNOT_APPROVE", "true"))
    /\ errors' = validate(values')
    /\ UNCHANGED <<submitCount, selected, data, hooks, subs, srv, collective, panelVars, docVars>>

\* Values of numberOfAdminsOptions.
numberOfAdminsOptions == <<"0", "2", "3", "4", "5">>

\* formik.setFieldValue('policies.COLLECTIVE_MINIMUM_ADMINS',
\*                      { ...formik.values.policies.COLLECTIVE_MINIMUM_ADMINS, [field]: value })
setMinimumAdminsField(vals, field, value) ==
    setFieldValue(vals, "policies",
        assign(vals.policies, "COLLECTIVE_MINIMUM_ADMINS",
               assign(spread(getObject(vals.policies, "COLLECTIVE_MINIMUM_ADMINS")),
                      field, value)))

\* onChange of the "numberOfAdmins" select (rendered for a host).
ChooseNumberOfAdmins(option) ==
    /\ collective.isHost
    /\ values' = IF option = "0"
                 THEN setFieldValue(values, "policies",
                                    omit(values.policies, "COLLECTIVE_MINIMUM_ADMINS"))
                 ELSE setMinimumAdminsField(values, "numberOfAdmins", option)
    /\ values' # values
    /\ errors' = validate(values')
    /\ UNCHANGED <<submitCount, selected, data, hooks, subs, srv, collective, panelVars, docVars>>

\* `checked` of the "minAdminsFreeze" checkbox.
minAdminsFreezeChecked ==
    Truthy(getScalar(spread(getObject(values.policies, "COLLECTIVE_MINIMUM_ADMINS")),
                     "freeze"))

\* onChange of the "minAdminsFreeze" checkbox (rendered for a host).
ToggleFreeze ==
    /\ collective.isHost
    /\ values' = setMinimumAdminsField(values, "freeze",
                      IF minAdminsFreezeChecked THEN "false" ELSE "true")
    /\ errors' = validate(values')
    /\ UNCHANGED <<submitCount, selected, data, hooks, subs, srv, collective, panelVars, docVars>>

\* onChange of the rejected-categories select.
SetSelected(selectedOptions) ==
    /\ selectedOptions # selected
    /\ selected' = selectedOptions
    /\ UNCHANGED <<values, errors, submitCount, data, hooks, subs, srv, collective, panelVars, docVars>>

\* Selections the user makes: none of the options, or all in menu order.
SelectChoices ==
    {<<>>, <<selectOptions[1], selectOptions[2]>>}

\* Selections in the order the user picked the options.
Selections ==
    {<<>>, <<selectOptions[2]>>, <<selectOptions[1], selectOptions[2]>>,
     <<selectOptions[2], selectOptions[1]>>}

\* Texts the user enters: below, at and above a maximum, with and without markup.
PolicyTexts(maxLength) ==
    {RichText(maxLength - 1, 0), RichText(maxLength, 0),
     RichText(maxLength, MarkupLen), RichText(maxLength + 1, 0)}

(***************************************************************************)
(* Initial states.                                                         *)
(***************************************************************************)
InitPolicies(collectives, accounts) ==
    /\ collective \in collectives
    /\ srv \in accounts
    /\ values = [contributionPolicy |-> RichText(0, 0),
                 expensePolicy |-> RichText(0, 0),
                 disablePublicExpenseSubmission |-> FALSE,
                 policies |-> EmptyObject]
    /\ errors = NoErrors
    /\ submitCount = 0
    /\ selected = <<>>
    /\ data = None
    /\ hooks = [m \in Mutations |-> IdleHook]
    /\ subs = <<>>

\* The form is not mounted.
NoPolicies ==
    /\ collective = [admins |-> 1, isHost |-> FALSE]
    /\ srv = [moderation |-> None, policies |-> EmptyObject]
    /\ values = [contributionPolicy |-> RichText(0, 0),
                 expensePolicy |-> RichText(0, 0),
                 disablePublicExpenseSubmission |-> FALSE,
                 policies |-> EmptyObject]
    /\ errors = NoErrors
    /\ submitCount = 0
    /\ selected = <<>>
    /\ data = None
    /\ hooks = [m \in Mutations |-> IdleHook]
    /\ subs = <<>>

MutationSettles ==
    \E s \in 1..MaxSubmissions + 1 :
        \/ CollectiveOk(s)
        \/ CategoriesOk(s)
        \/ PoliciesOk(s)
        \/ \E m \in Mutations : MutationFail(s, m)

(***************************************************************************)
(* Spec: submissions of the Policies form, overlapping ones included,      *)
(* while the settings query is still loading.                              *)
(***************************************************************************)
Init ==
    /\ InitPolicies({[admins |-> 2, isHost |-> FALSE]},
                    {[moderation |-> None, policies |-> EmptyObject],
                         [moderation |-> Some([rejectedCategories |->
                                                  <<MODERATION_CATEGORIES[1]>>]),
                          policies |-> [k \in {"EXPENSE_AUTHOR_CANNOT_APPROVE"} |->
                                           "true"]]})
    /\ NoPanel
    /\ NoDocument

Next ==
    \/ \E selectedOptions \in SelectChoices : SetSelected(selectedOptions)
    \/ ToggleAuthorCannotApprove
    \/ Submit(MaxSubmissions)
    \/ MutationSettles

Spec == Init /\ [][Next]_vars

(***************************************************************************)
(* SpecForm: editing the two policy texts, validation and submission.      *)
(***************************************************************************)
InitForm ==
    /\ InitPolicies({[admins |-> 2, isHost |-> FALSE]},
                    {[moderation |-> None, policies |-> EmptyObject]})
    /\ NoPanel
    /\ NoDocument

NextForm ==
    \/ QueryResult
    \/ \E text \in PolicyTexts(CONTRIBUTION_POLICY_MAX_LENGTH) :
           ChangeContributionPolicy(text)
    \/ \E text \in PolicyTexts(EXPENSE_POLICY_MAX_LENGTH) : ChangeExpensePolicy(text)
    \/ ToggleDisablePublicExpenseSubmission
    \/ Submit(MaxFormSubmissions)
    \/ MutationSettles

SpecForm == InitForm /\ [][NextForm]_vars

(***************************************************************************)
(* SpecPolicy: editing the policies object (minimum number of admins,      *)
(* freeze, author cannot approve), the settings query and submission.      *)
(***************************************************************************)
MaxPolicySubmissions == 1

InitPolicy ==
    /\ InitPolicies({[admins |-> 1, isHost |-> TRUE], [admins |-> 2, isHost |-> TRUE]},
                    {[moderation |-> None, policies |-> EmptyObject],
                     [moderation |-> None,
                      policies |-> [k \in {"EXPENSE_AUTHOR_CANNOT_APPROVE",
                                           "COLLECTIVE_MINIMUM_ADMINS"} |->
                                       IF k = "EXPENSE_AUTHOR_CANNOT_APPROVE" THEN "true"
                                       ELSE [numberOfAdmins |-> "2",
                                             applies |-> "NEW_COLLECTIVES",
                                             freeze |-> "false"]]]})
    /\ NoPanel
    /\ NoDocument

NextPolicy ==
    \/ QueryResult
    \/ \E i \in DOMAIN numberOfAdminsOptions :
           ChooseNumberOfAdmins(numberOfAdminsOptions[i])
    \/ ToggleFreeze
    \/ ToggleAuthorCannotApprove
    \/ Submit(MaxPolicySubmissions)
    \/ MutationSettles

SpecPolicy == InitPolicy /\ [][NextPolicy]_vars

(***************************************************************************)
(* SpecApproval: the "author cannot approve" checkbox for collectives with *)
(* zero, one and two admins, with the settings query and submission.       *)
(***************************************************************************)
MaxApprovalSubmissions == 1

InitApproval ==
    /\ InitPolicies({[admins |-> n, isHost |-> TRUE] : n \in {0, 1, 2}},
                    {[moderation |-> None, policies |-> EmptyObject],
                     [moderation |-> None,
                      policies |-> [k \in {"EXPENSE_AUTHOR_CANNOT_APPROVE"} |-> "true"]]})
    /\ NoPanel
    /\ NoDocument

NextApproval ==
    \/ QueryResult
    \/ ToggleAuthorCannotApprove
    \/ ToggleFreeze
    \/ Submit(MaxApprovalSubmissions)
    \/ MutationSettles

SpecApproval == InitApproval /\ [][NextApproval]_vars

(***************************************************************************)
(* SpecData: results of the settings query and of the mutations arriving   *)
(* between the user's edits, selections and submissions.                   *)
(***************************************************************************)
MaxDataSubmissions == 1

InitData ==
    /\ InitPolicies({[admins |-> 2, isHost |-> FALSE]},
                    {[moderation |-> None, policies |-> EmptyObject],
                     [moderation |-> Some([rejectedCategories |->
                                              <<MODERATION_CATEGORIES[1]>>]),
                      policies |-> [k \in {"EXPENSE_AUTHOR_CANNOT_APPROVE"} |->
                                       "true"]]})
    /\ NoPanel
    /\ NoDocument

NextData ==
    \/ QueryResult
    \/ ChangeContributionPolicy(RichText(CONTRIBUTION_POLICY_MAX_LENGTH, MarkupLen))
    \/ ChangeExpensePolicy(RichText(EXPENSE_POLICY_MAX_LENGTH, 0))
    \/ ToggleDisablePublicExpenseSubmission
    \/ ToggleAuthorCannotApprove
    \/ \E selectedOptions \in SelectChoices : SetSelected(selectedOptions)
    \/ Submit(MaxDataSubmissions)
    \/ MutationSettles

SpecData == InitData /\ [][NextData]_vars

(***************************************************************************)
(* SpecSelect: the rejected-categories selection between query results,    *)
(* the user's selections and submissions.                                  *)
(***************************************************************************)
MaxSelectSubmissions == 1

InitSelect ==
    /\ InitPolicies({[admins |-> 2, isHost |-> FALSE]},
                    {[moderation |-> None, policies |-> EmptyObject],
                     [moderation |-> Some([rejectedCategories |-> <<>>]),
                      policies |-> EmptyObject],
                     [moderation |-> Some([rejectedCategories |->
                                              <<MODERATION_CATEGORIES[1]>>]),
                      policies |-> EmptyObject]})
    /\ NoPanel
    /\ NoDocument

NextSelect ==
    \/ QueryResult
    \/ \E selectedOptions \in Selections : SetSelected(selectedOptions)
    \/ Submit(MaxSelectSubmissions)
    \/ MutationSettles

SpecSelect == InitSelect /\ [][NextSelect]_vars

(***************************************************************************)
(* Properties of the Policies form.                                        *)
(***************************************************************************)
Status(s, m) == subs[s].status[m]

\* C1: in every submission, editAccountSetting and setPolicies are called only
\* after the submission's editCollective has succeeded; when editCollective
\* failed (or is still pending), neither has been called.
ConcurrentMutationsFollowCollective ==
    \A s \in DOMAIN subs :
        \A m \in {"editAccountSetting", "setPolicies"} :
            (Status(s, m) # "none" \/ subs[s].calls[m] > 0 \/ hooks[m].latest = s)
                => Status(s, "editCollective") = "ok"

\* One submission sent its two concurrent mutations after editCollective
\* succeeded, another stopped at a failed editCollective.
CollectiveGatesWitness ==
    /\ \E s \in DOMAIN subs :
           /\ Status(s, "editCollective") = "ok"
           /\ subs[s].calls["editAccountSetting"] = 1
           /\ subs[s].calls["setPolicies"] = 1
    /\ \E s \in DOMAIN subs :
           /\ Status(s, "editCollective") = "failed"
           /\ Status(s, "editAccountSetting") = "none"
           /\ Status(s, "setPolicies") = "none"

\* C2: a submit attempt made while validate reports an error for
\* contributionPolicy or expensePolicy calls no mutation and shows no toast: it
\* only counts the attempt and records the errors.
ValidationErrorsBlockSubmission ==
    [][(submitCount' = submitCount + 1 /\ validate(values) # NoErrors)
          => (subs' = subs /\ hooks' = hooks /\ srv' = srv
              /\ errors' = validate(values))]_vars

\* A submit attempt was blocked by an expense policy that is too long.
BlockedSubmitWitness ==
    /\ submitCount > Len(subs)
    /\ errors.expensePolicy # Null
    /\ errors.contributionPolicy = Null

\* C3: a submission shows the success toast exactly once when its three
\* mutations have all succeeded, and not at all otherwise.
ToastIffAllSucceeded ==
    \A s \in DOMAIN subs :
        /\ subs[s].toasts \in {0, 1}
        /\ subs[s].toasts = 1 <=> \A m \in Mutations : Status(s, m) = "ok"

\* One submission succeeded and showed its toast; in another editAccountSetting
\* failed, setPolicies succeeded, and no toast was shown.
ToastWitness ==
    /\ \E s \in DOMAIN subs : subs[s].toasts = 1
    /\ \E s \in DOMAIN subs :
           /\ Status(s, "editAccountSetting") = "failed"
           /\ Status(s, "setPolicies") = "ok"
           /\ subs[s].toasts = 0

NoRetryErrorExposed ==
    [][\A s \in DOMAIN subs :
          \A m \in Mutations :
              /\ subs'[s].calls[m] <= 1
              /\ (Status(s, m) = "pending" /\ subs'[s].status[m] = "failed")
                    => /\ subs'[s].calls[m] = subs[s].calls[m]
                       /\ hooks'[m].error # Null
                       /\ error' # Null]_vars

\* The form's EXPENSE_AUTHOR_CANNOT_APPROVE is enabled.
authorCannotApproveChecked ==
    Truthy(getScalar(values.policies, "EXPENSE_AUTHOR_CANNOT_APPROVE"))

\* C11: for a collective with fewer than two admins, the checkbox is disabled
\* whenever the policy is not enabled in the form, the form's policy goes from
\* not enabled to enabled by no step other than the arrival of data from the
\* server, and the checkbox is usable whenever the policy is enabled.
TwoAdminsToEnable ==
    [][numberOfAdmins < 2 =>
          /\ ~authorCannotApproveChecked => authorCannotApproveDisabled
          /\ (~authorCannotApproveChecked /\ authorCannotApproveChecked') => data' # data
          /\ authorCannotApproveChecked => ~authorCannotApproveDisabled]_vars

\* C11, amended: as above, the checkbox being usable whenever the policy is
\* enabled and no setPolicies mutation is in flight.
TwoAdminsToEnableUnlessSaving ==
    [][numberOfAdmins < 2 =>
          /\ ~authorCannotApproveChecked => authorCannotApproveDisabled
          /\ (~authorCannotApproveChecked /\ authorCannotApproveChecked') => data' # data
          /\ (authorCannotApproveChecked /\ ~isSettingPolicies)
                => /\ ~authorCannotApproveDisabled
                   /\ ENABLED ToggleAuthorCannotApprove]_vars

\* A collective with one admin whose policy is enabled on the server: the user
\* has turned it off in the form, and the checkbox is now disabled.
TwoAdminsWitness ==
    /\ numberOfAdmins = 1
    /\ data # None
    /\ Truthy(data[1].policies["EXPENSE_AUTHOR_CANNOT_APPROVE"])
    /\ ~authorCannotApproveChecked
    /\ authorCannotApproveDisabled

\* C13: a COLLECTIVE_MINIMUM_ADMINS record in the form's policies, and in the
\* policies a submission sends to setPolicies, carries a numberOfAdmins of 2, 3,
\* 4 or 5 (choosing 0 leaves no record).
MinimumAdminsCarriesNumber ==
    LET carriesNumber(policies) ==
            ("COLLECTIVE_MINIMUM_ADMINS" \in DOMAIN policies
             /\ ~IsNullObject(policies["COLLECTIVE_MINIMUM_ADMINS"]))
                => /\ "numberOfAdmins" \in DOMAIN policies["COLLECTIVE_MINIMUM_ADMINS"]
                   /\ policies["COLLECTIVE_MINIMUM_ADMINS"]["numberOfAdmins"]
                          \in {"2", "3", "4", "5"}
    IN /\ carriesNumber(values.policies)
       /\ \A s \in DOMAIN subs :
              Status(s, "setPolicies") # "none"
                  => carriesNumber(policiesVariables(subs[s]).policies)

\* C14: when the query data arrives or changes, the form's policies become the
\* data's policies without any __typename, whatever the form's policies were,
\* the two policy texts and disablePublicExpenseSubmission keep their values,
\* and the selection is not touched by resetting the policies: it changes in
\* that render only if it was empty (the pre-fill effect).
DataResetsPoliciesOnly ==
    [][data' # data =>
          LET server == data'[1].policies
              form == values'.policies
          IN /\ DOMAIN form = (DOMAIN server) \ {"__typename"}
             /\ \A k \in DOMAIN form :
                    IF k \in ObjectKeys
                    THEN /\ DOMAIN form[k] = (DOMAIN server[k]) \ {"__typename"}
                         /\ \A f \in DOMAIN form[k] : form[k][f] = server[k][f]
                    ELSE form[k] = server[k]
             /\ values'.contributionPolicy = values.contributionPolicy
             /\ values'.expensePolicy = values.expensePolicy
             /\ values'.disablePublicExpenseSubmission
                    = values.disablePublicExpenseSubmission
             /\ selected # <<>> => selected' = selected
             /\ selected' # selected =>
                    /\ data'[1].rejectedCategories # None
                    /\ [i \in DOMAIN selected' |-> selected'[i].value]
                           = data'[1].rejectedCategories[1]]_vars

\* The user turned the policy off and submitted; the result of
\* editAccountSetting changed the data and the form's policy is enabled again,
\* as in the data, while the edited text and checkbox kept their values.
DataDiscardsEditsWitness ==
    \E s \in DOMAIN subs :
        /\ Status(s, "setPolicies") = "pending"
        /\ "EXPENSE_AUTHOR_CANNOT_APPROVE" \notin DOMAIN subs[s].policies
        /\ data # None
        /\ Truthy(data[1].policies["EXPENSE_AUTHOR_CANNOT_APPROVE"])
        /\ authorCannotApproveChecked
        /\ values.disablePublicExpenseSubmission
        /\ values.expensePolicy = RichText(EXPENSE_POLICY_MAX_LENGTH, 0)
        /\ selected # <<>>

\* C15: the pre-fill effect never overwrites a selection: when data arrives the
\* selection changes only if it was empty and the data has rejected categories,
\* and then to the options of those categories; and a submission sends
\* editAccountSetting the values of the options selected when it was submitted.
PrefillKeepsSelection ==
    [][/\ data' # data =>
             /\ selected # <<>> => selected' = selected
             /\ selected' # selected =>
                    /\ data'[1].rejectedCategories # None
                    /\ Len(selected') = Len(data'[1].rejectedCategories[1])
                    /\ \A i \in DOMAIN selected' :
                           /\ selected'[i].value = data'[1].rejectedCategories[1][i]
                           /\ selected'[i] \in {selectOptions[j] : j \in DOMAIN selectOptions}
       /\ Len(subs') > Len(subs) =>
             LET sent == categoriesVariables(subs'[Len(subs')]).value.rejectedCategories
             IN /\ Len(sent) = Len(selected)
                /\ \A i \in DOMAIN sent : sent[i] = selected[i].value]_vars

\* The server rejects ADULT, the query result has arrived, and the user's own
\* selection (CASINO_GAMBLING, then ADULT) is still selected and has been sent.
PrefillWitness ==
    /\ data # None
    /\ data[1].rejectedCategories = Some(<<"ADULT">>)
    /\ selected = <<selectOptions[2], selectOptions[1]>>
    /\ \E s \in DOMAIN subs :
           /\ Status(s, "editAccountSetting") = "pending"
           /\ subs[s].selected = selected

\* C10: validation accepts a policy text only when its HTML-stripped length is
\* less than the field's maximum length.
ValidationRequiresLessThanMax ==
    /\ errors.contributionPolicy = Null
          => Length(stripHTML(values.contributionPolicy)) < CONTRIBUTION_POLICY_MAX_LENGTH
    /\ errors.expensePolicy = Null
          => Length(stripHTML(values.expensePolicy)) < EXPENSE_POLICY_MAX_LENGTH

(***************************************************************************)
(* SpecPanel: renders of AdminPanelSection.                                *)
(***************************************************************************)
\* The first render: the account is still loading.
InitPanel ==
    /\ panelProps = [collective |-> None, isLoading |-> TRUE, section |-> "",
                     subpath |-> <<>>]
    /\ panelOutput = AdminPanelSection(panelProps)
    /\ NoPolicies
    /\ NoDocument

NextPanel == \E props \in PanelProps : RenderPanel(props)

SpecPanel == InitPanel /\ [][NextPanel]_vars

Registered(section) ==
    \/ section \in DOMAIN ADMIN_PANEL_SECTIONS
    \/ section \in DOMAIN FISCAL_HOST_SETTINGS_SECTIONS
    \/ section \in LEGACY_COLLECTIVE_SETTINGS_SECTIONS

\* C6: when isLoading is false the section alone decides what is rendered: the
\* component registered in ADMIN_PANEL_SECTIONS, else the one registered in
\* FISCAL_HOST_SETTINGS_SECTIONS, else AccountSettings for a legacy section; and
\* NotFound is rendered if and only if the section is in none of the three.
SectionDecidesRender ==
    ~panelProps.isLoading =>
        LET section == panelProps.section
        IN /\ section \in DOMAIN ADMIN_PANEL_SECTIONS
                => panelOutput = ADMIN_PANEL_SECTIONS[section]
           /\ (section \notin DOMAIN ADMIN_PANEL_SECTIONS
               /\ section \in DOMAIN FISCAL_HOST_SETTINGS_SECTIONS)
                => panelOutput = FISCAL_HOST_SETTINGS_SECTIONS[section]
           /\ (section \notin DOMAIN ADMIN_PANEL_SECTIONS
               /\ section \notin DOMAIN FISCAL_HOST_SETTINGS_SECTIONS
               /\ section \in LEGACY_COLLECTIVE_SETTINGS_SECTIONS)
                => panelOutput = "AccountSettings"
           /\ panelOutput = "NotFound" <=> ~Registered(section)

\* C7: while isLoading is true the loading placeholder is rendered for every
\* section, and collective is not read: a null collective raises no error.
LoadingRendersPlaceholder ==
    panelProps.isLoading => panelOutput = "LoadingPlaceholder"

\* Loading, with a null collective and a section of the host dashboard.
LoadingNullCollectiveWitness ==
    /\ panelProps.isLoading
    /\ panelProps.collective = None
    /\ panelProps.section = HOST_DASHBOARD_SECTIONS.EXPENSES
    /\ panelOutput = "LoadingPlaceholder"

(***************************************************************************)
(* SpecDoc: server renders of the document, interleaved.                   *)
(***************************************************************************)
InitDoc ==
    /\ env \in Environments(0)
    /\ cspHeader \in CspHeaders
    /\ uuidCalls = 0
    /\ requests = <<>>
    /\ NoPolicies
    /\ NoPanel

NextDoc ==
    \/ \E hasRes \in BOOLEAN : GetInitialProps(RootUrl, hasRes, MaxRequests)
    \/ \E r \in 1..MaxRequests + 1 : Construct(r)
    \/ \E r \in 1..MaxRequests + 1 : RenderDocument(r)

SpecDoc == InitDoc /\ [][NextDoc]_vars

(***************************************************************************)
(* SpecEnv: the document under every small environment.                    *)
(***************************************************************************)
InitEnv ==
    /\ env \in Environments(MaxEnvVars)
    /\ cspHeader \in CspHeaders
    /\ uuidCalls = 0
    /\ requests = <<>>
    /\ NoPolicies
    /\ NoPanel

NextEnv ==
    \/ \E hasRes \in BOOLEAN : GetInitialProps(RootUrl, hasRes, MaxEnvRequests)
    \/ \E r \in 1..MaxEnvRequests + 1 : Construct(r)
    \/ \E r \in 1..MaxEnvRequests + 1 : RenderDocument(r)

SpecEnv == InitEnv /\ [][NextEnv]_vars

\* The environments that agree with this one on the client's variables.
AgreeingEnvironments(environment) ==
    {[k \in (DOMAIN environment \cap ClientEnvNames) \cup DOMAIN other |->
         IF k \in DOMAIN other THEN other[k] ELSE environment[k]] :
       other \in UNION {[names -> EnvValues] : names \in SUBSET ServerOnlyEnvNames}}

\* C8: __NEXT_DATA__.env holds only allow-listed names, each with its value in
\* the server's environment, and every environment that agrees with the server's
\* on the allow-listed variables gives the same payload.
ClientEnvIsAllowListed ==
    \A r \in DOMAIN requests :
        requests[r].stage # "initialProps" =>
            LET payload == requests[r].nextData.env
            IN /\ DOMAIN payload = DOMAIN env \cap ClientEnvNames
               /\ Cardinality(ClientEnvNames) = 13
               /\ \A k \in DOMAIN payload : payload[k] = env[k]
               /\ \A other \in AgreeingEnvironments(env) : clientEnv(other) = payload

\* A document was built where the environment holds a client variable and a
\* server-only one: the payload holds the first alone.
ClientEnvWitness ==
    \E r \in DOMAIN requests :
        /\ requests[r].stage = "constructed"
        /\ DOMAIN env = {"STRIPE_KEY", "CLIENT_ANALYTICS_SITE_ID"}
        /\ DOMAIN requests[r].nextData.env = {"STRIPE_KEY"}

\* The header value with the placeholder replaced by the nonce.
WithNonce(value, nonce) ==
    [i \in DOMAIN value |-> IF value[i] = Placeholder THEN nonce ELSE value[i]]

\* C9: a render with a response object and a CSP header configuration gets a
\* nonce of its own, the header is set to the configured value with the
\* placeholder replaced by that nonce, and the same nonce is passed as cspNonce,
\* then to __NEXT_DATA__.cspNonce and to the script tags; otherwise no header is
\* set and cspNonce is undefined. No two renders share a nonce.
NoncePerRequest ==
    \A r \in DOMAIN requests :
        LET request == requests[r]
            nonce == request.props.cspNonce
        IN /\ IF request.hasRes /\ cspHeader # None
              THEN /\ nonce # Null
                   /\ nonce # Placeholder
                   /\ request.headers =
                        Some([key |-> cspHeader[1].key,
                              value |-> WithNonce(cspHeader[1].value, nonce)])
                   /\ \A i \in DOMAIN request.headers[1].value :
                          request.headers[1].value[i] # Placeholder
                   /\ \A other \in DOMAIN requests :
                          other # r => requests[other].props.cspNonce # nonce
              ELSE /\ nonce = Null
                   /\ request.headers = None
           /\ request.stage # "initialProps" => request.nextData.cspNonce = nonce
           /\ request.stage = "rendered" =>
                  /\ {"localeDataScript", "NextScript"} \subseteq DOMAIN request.nonces
                  /\ \A tag \in DOMAIN request.nonces : request.nonces[tag] = nonce

\* Two renders with a header, each rendered with its own nonce, and one render
\* without a response object.
NonceWitness ==
    /\ cspHeader # None
    /\ \E r1, r2 \in DOMAIN requests :
           /\ r1 # r2
           /\ requests[r1].stage = "rendered"
           /\ requests[r2].stage = "rendered"
           /\ requests[r1].headers # None
           /\ requests[r2].headers # None
           /\ requests[r1].props.cspNonce # requests[r2].props.cspNonce

(***************************************************************************)
(* SpecAnalytics: renders of requests for different URLs under different   *)
(* settings of the analytics variables.                                    *)
(***************************************************************************)
MaxAnalyticsRequests == 2

\* Settings of CLIENT_ANALYTICS_ENABLED and CLIENT_ANALYTICS_SITE_ID.
AnalyticsEnvironments ==
    {[k \in names |-> IF k = "CLIENT_ANALYTICS_ENABLED" THEN toggle ELSE "7"] :
        names \in SUBSET ServerOnlyEnvNames, toggle \in {"true", "false", "yes"}}

InitAnalytics ==
    /\ env \in AnalyticsEnvironments
    /\ cspHeader = Some([key |-> "Content-Security-Policy",
                         value |-> <<"script-src 'nonce-", Placeholder, "'">>])
    /\ uuidCalls = 0
    /\ requests = <<>>
    /\ NoPolicies
    /\ NoPanel

NextAnalytics ==
    \/ \E url \in Urls : GetInitialProps(url, TRUE, MaxAnalyticsRequests)
    \/ \E r \in 1..MaxAnalyticsRequests + 1 : Construct(r)
    \/ \E r \in 1..MaxAnalyticsRequests + 1 : RenderDocument(r)

SpecAnalytics == InitAnalytics /\ [][NextAnalytics]_vars

\* The URLs that contain '.html' or '/button'.
UrlsOfPagesNotTracked ==
    {<<"/", "a", ".", "h", "t", "m", "l">>,
     <<"/", "b", "u", "t", "t", "o", "n">>,
     <<"/", "s", "i", "g", "n", "i", "n", "/", "s", "e", "n", "t", ".", "h", "t", "m", "l">>,
     <<"/", "x", "/", "s", "i", "g", "n", "i", "n", "/", "b", "/", "b", "u", "t", "t", "o", "n">>}

\* The URLs that contain '/signin/sent'.
UrlsOfSigninSent ==
    {<<"/", "s", "i", "g", "n", "i", "n", "/", "s", "e", "n", "t">>,
     <<"/", "s", "i", "g", "n", "i", "n", "/", "s", "e", "n", "t", ".", "h", "t", "m", "l">>}

\* The other URLs that contain '/signin/'.
UrlsOfSigninToken ==
    {<<"/", "s", "i", "g", "n", "i", "n", "/", "a", "b", "c">>,
     <<"/", "x", "/", "s", "i", "g", "n", "i", "n", "/", "b", "/", "b", "u", "t", "t", "o", "n">>}

\* C12: enabled is false for a URL containing '.html' or '/button' and the
\* parsed CLIENT_ANALYTICS_ENABLED otherwise; customUrl is '/signin/sent' for a
\* URL containing '/signin/sent', else '/signin/token' for one containing
\* '/signin/', else null; the analytics script is rendered exactly when enabled
\* is true.
AnalyticsFromToggleAndUrl ==
    \A r \in DOMAIN requests :
        LET request == requests[r]
            analytics == request.props.clientAnalytics
            toggle == "CLIENT_ANALYTICS_ENABLED" \in DOMAIN env
                      /\ env["CLIENT_ANALYTICS_ENABLED"] \in {"true", "yes"}
        IN /\ analytics.enabled =
                  (IF request.url \in UrlsOfPagesNotTracked THEN FALSE ELSE toggle)
           /\ analytics.customUrl =
                  (IF request.url \in UrlsOfSigninSent THEN "/signin/sent"
                   ELSE IF request.url \in UrlsOfSigninToken THEN "/signin/token"
                   ELSE Null)
           /\ request.stage = "rendered" =>
                  /\ analytics.enabled <=> request.analyticsScript # None
                  /\ analytics.enabled <=> "clientAnalytics" \in DOMAIN request.nonces

\* With analytics switched on, the page /signin/abc was rendered with the script
\* and the custom URL '/signin/token', and the page /signin/sent.html without
\* the script.
AnalyticsWitness ==
    /\ "CLIENT_ANALYTICS_ENABLED" \in DOMAIN env
    /\ env["CLIENT_ANALYTICS_ENABLED"] = "true"
    /\ \E r1, r2 \in DOMAIN requests :
           /\ requests[r1].stage = "rendered"
           /\ requests[r1].url = <<"/", "s", "i", "g", "n", "i", "n", "/", "a", "b", "c">>
           /\ requests[r1].analyticsScript # None
           /\ requests[r1].analyticsScript[1][2] = <<"setCustomUrl", "/signin/token">>
           /\ requests[r2].stage = "rendered"
           /\ requests[r2].url = <<"/", "s", "i", "g", "n", "i", "n", "/", "s", "e", "n", "t", ".", "h", "t", "m", "l">>
           /\ requests[r2].props.clientAnalytics.customUrl = "/signin/sent"
           /\ requests[r2].analyticsScript = None

====
